---- MODULE Spec2Model ----
(***************************************************************************)
(* A model of powerapi's CsvDB (src/powerapi/database/csvdb.py): the       *)
(* registration of input files, connect, the merge iterator __next__ and   *)
(* the writers save and save_many; and of the handlers of the pusher actor *)
(* (src/smartwatts/pusher/handlers.py).                                    *)
(*                                                                         *)
(* The specifications share the variables: Spec (every interleaving of     *)
(* add_file, add_files, clean_files, connect and __next__ over a disk of   *)
(* arbitrary small files), SpecMerge (connect and __next__ over sorted,    *)
(* non-empty files), SpecScan (the same over files of any content),        *)
(* SpecSave (save on the files of one entity), SpecSaveMany (save_many),   *)
(* SpecRound (save, then the written files read back) and SpecPusher (the  *)
(* pusher's handlers on any sequence of messages).                         *)
(*                                                                         *)
(* A csv file on disk is [kind |-> "file", header, rows]: header is the    *)
(* sequence of column names of its first line (<< >> when the file has no  *)
(* content at all) and rows the data lines, each a function from the       *)
(* header's columns to cells.  A cell is the text of a value, Text(v).     *)
(***************************************************************************)
EXTENDS Integers, Sequences, FiniteSets, TLC

VARIABLES
    disk,             \* the file system: absolute path -> file state
    filenames,        \* CsvDB.filenames
    tmp_read,         \* CsvDB.tmp_read: path -> [next_line, reader, file]
    saved_timestamp,  \* CsvDB.saved_timestamp
    result,           \* what the last call did: [op, out, ...]
    conn,             \* how the most recent connect ended: "never", "ok" or
                      \* the exception it raised
    dirty,            \* the registration changed since the most recent connect
    yielded,          \* records returned by __next__ since the most recent connect
    lastTs,           \* timestamp of the last record returned since the most
                      \* recent successful connect (-1: none yet; -2: no
                      \* connect has succeeded yet)
    disk0,            \* the disk as it was at the start
    attempts,         \* the rows save set out to append, in call order:
                      \* [call, path, header, row]
    initialized,      \* the pusher's state.initialized
    alive,            \* the pusher's state.alive
    control,          \* the messages sent with socket_interface.send_control
    loads,            \* how each call of state.database.load ended
    pushed,           \* the number of reports handed to state.database.save
    handled           \* the messages handled so far: [handler, msg]

vars == <<disk, filenames, tmp_read, saved_timestamp, result, conn, dirty,
          yielded, lastTs, disk0, attempts,
          initialized, alive, control, loads, pushed, handled>>

\* The store.
storeVars == <<disk, filenames, tmp_read, saved_timestamp, result, conn, dirty,
               yielded, lastTs, disk0, attempts>>

\* The pusher.
pusherVars == <<initialized, alive, control, loads, pushed, handled>>

\* What the read side leaves alone.
writeVars == <<disk0, attempts, pusherVars>>

\* What the write side leaves alone.
readVars == <<filenames, tmp_read, saved_timestamp, conn, dirty, yielded, lastTs,
              pusherVars>>

----------------------------------------------------------------------------
(* Bounds of the model *)

\* Rows per input file are at most MaxRows.
MaxRows == 1

\* Row timestamps are drawn from 0 .. MaxTs.
MaxTs == 1

\* The files of the merge specification SpecMerge: at most MergeRows rows
\* each, timestamps from 0 .. MergeTs.
MergeRows == 3

MergeTs == 2

\* The files of the scan specification SpecScan: at most ScanRows rows
\* each, timestamps from 0 .. ScanTs.
ScanRows == 2

ScanTs == 2

\* At most MaxFiles entries in CsvDB.filenames.
MaxFiles == 2

\* At most MaxSaves calls of save.
MaxSaves == 2

\* At most MaxBatch reports handed to save_many, all batches together.
MaxBatch == 3

\* At most MaxMsgs messages handled by the pusher.
MaxMsgs == 4

----------------------------------------------------------------------------
(* Values *)

\* The text of a value in a csv cell (str(v) on write, the string csv hands
\* back on read); int() parses it back.
Text(v) == [text |-> v]

int(cell) == cell.text

\* The string a cell holds, unparsed.
str(cell) == cell.text

\* powerapi.report_model.KEYS_COMMON, the common columns.
KEYS_COMMON == <<"timestamp", "sensor", "target", "socket", "cpu">>

Range(s) == {s[i] : i \in 1 .. Len(s)}

\* utils.timestamp_to_datetime: milliseconds since the epoch to a point in
\* time, here whole seconds and the microseconds within the second.
timestamp_to_datetime(ts) == [sec |-> ts \div 1000, usec |-> (ts % 1000) * 1000]

\* datetime's order.
DtGT(a, b) == \/ a.sec > b.sec
              \/ a.sec = b.sec /\ a.usec > b.usec

\* The timestamp a point in time stands for.
DtMillis(d) == d.sec * 1000 + d.usec \div 1000

----------------------------------------------------------------------------
(* Paths.  A path is the sequence of its components; a file name handed to *)
(* add_file is [abs, parts].                                               *)

\* CsvDB.current_path as normalised by the constructor (it ends in '/').
current_path == <<"d">>

\* filename[0] == '/' ? filename : current_path + filename
Resolve(filename) ==
    IF filename.abs THEN filename.parts ELSE current_path \o filename.parts

\* path_file.split('/')[-1]
Basename(path) == path[Len(path)]

PathA == <<"d", "a.csv">>
PathB == <<"d", "b.csv">>
Paths == {PathA, PathB}

\* The file names a caller registers: relative to current_path or absolute.
FileNameInputs ==
    { [abs |-> FALSE, parts |-> <<"a.csv">>],
      [abs |-> TRUE,  parts |-> PathA],
      [abs |-> FALSE, parts |-> <<"b.csv">>] }

----------------------------------------------------------------------------
(* The disk *)

NoFile == [kind |-> "missing"]
Unreadable == [kind |-> "unreadable"]

IsFile(f) == f.kind = "file"

HdrFull == KEYS_COMMON \o <<"power">>
HdrNoCpu == <<"timestamp", "sensor", "target", "socket", "power">>
HdrNoTs == <<"sensor", "target", "socket", "cpu", "power">>
InputHeaders == {HdrFull, HdrNoCpu, HdrNoTs}

\* Row i of an input file: timestamp ts, one entity, cpu alternating so that
\* rows of one file at one timestamp both collide and differ on (socket, cpu).
CellOf(col, ts, i) ==
    CASE col = "timestamp" -> Text(ts)
      [] col = "sensor" -> Text("s1")
      [] col = "target" -> Text("t1")
      [] col = "socket" -> Text(0)
      [] col = "cpu" -> Text(i % 2)
      [] OTHER -> Text(10 * ts + i)

MkRow(header, ts, i) == [col \in Range(header) |-> CellOf(col, ts, i)]

TsSeqs == UNION {[1 .. n -> 0 .. MaxTs] : n \in 0 .. MaxRows}

MkFile(header, tss) ==
    [kind |-> "file", header |-> header,
     rows |-> [i \in 1 .. Len(tss) |->
                 MkRow(header, IF "timestamp" \in Range(header) THEN tss[i] ELSE 0, i)]]

\* A file with no content at all (not even a header line).
EmptyFile == [kind |-> "file", header |-> << >>, rows |-> << >>]

InputFiles ==
    {EmptyFile} \cup {MkFile(h, tss) : h \in InputHeaders, tss \in TsSeqs}

FileStates == {NoFile, Unreadable} \cup InputFiles

----------------------------------------------------------------------------
(* The codec and dict_merge (powerapi.report_model, powerapi.utils) *)

NonCommon(row) == DOMAIN row \ Range(KEYS_COMMON)

\* The codec reads every common column of the row; on a row that lacks one
\* it raises KeyError.
CodecAccepts(row) == Range(KEYS_COMMON) \subseteq DOMAIN row

\* report_model.from_csvdb(file name, row): the fragment of a report a row
\* stands for, its values under groups[group][socket][cpu].
from_csvdb(basename, row) ==
    [timestamp |-> int(row.timestamp),
     sensor |-> str(row.sensor),
     target |-> str(row.target),
     groups |-> (<<basename, int(row.socket), int(row.cpu)>> :>
                    [c \in NonCommon(row) |-> int(row[c])])]

\* The empty dict.
EmptyJson == [empty |-> TRUE]

IsEmptyJson(j) == "empty" \in DOMAIN j

\* utils.dict_merge(a, b): deep union into a, b's scalars winning.
dict_merge(a, b) ==
    IF IsEmptyJson(a) THEN b
    ELSE [timestamp |-> b.timestamp, sensor |-> b.sensor, target |-> b.target,
          groups |-> [k \in DOMAIN a.groups \cup DOMAIN b.groups |->
                        IF k \notin DOMAIN b.groups THEN a.groups[k]
                        ELSE IF k \notin DOMAIN a.groups THEN b.groups[k]
                        ELSE b.groups[k] @@ a.groups[k]]]

----------------------------------------------------------------------------
(* The store's read side *)

\* The values of tmp_read[path]['next_line']: the [] add_file puts there,
\* None once the reader is exhausted, or a row.
Unprimed == [kind |-> "list"]
None == [kind |-> "None"]
RowLine(r) == [kind |-> "row", row |-> r]

\* The entry add_file creates: no line, no reader (-1), no file.
FreshEntry == [next_line |-> Unprimed, reader |-> -1, file |-> "None"]

NoTmp == [p \in {} |-> FreshEntry]

\* A call's report: the operation, how it ended ("ok", "record",
\* "StopIteration" or the exception raised) and the record returned; for
\* connect, the number of records __next__ had returned when it was called.
Report(op, out, val) == [op |-> op, out |-> out, json |-> val]

\* CsvDB._next: the reader's next row, None at the end of the file.  The
\* reader field counts the rows already handed out.
_next(tr, path) ==
    LET e == tr[path] IN
    IF e.reader = -1 THEN [err |-> "AttributeError", line |-> None, tmp |-> tr]
    ELSE IF e.file # "open" THEN [err |-> "ValueError", line |-> None, tmp |-> tr]
    ELSE IF e.reader < Len(disk[path].rows)
    THEN [err |-> "", line |-> RowLine(disk[path].rows[e.reader + 1]),
          tmp |-> [tr EXCEPT ![path].reader = @ + 1]]
    ELSE [err |-> "", line |-> None, tmp |-> tr]

\* CsvDB.add_file applied to (filenames, tmp_read).
AddOne(st, filename) ==
    LET path == Resolve(filename) IN
    [names |-> Append(st.names, path),
     tmp |-> [p \in DOMAIN st.tmp \cup {path} |->
                IF p = path THEN FreshEntry ELSE st.tmp[p]]]

RECURSIVE AddAll(_, _)
AddAll(st, fs) ==
    IF fs = << >> THEN st ELSE AddAll(AddOne(st, Head(fs)), Tail(fs))

add_file(filename) ==
    /\ Len(filenames) < MaxFiles
    /\ LET st == AddOne([names |-> filenames, tmp |-> tmp_read], filename) IN
         /\ filenames' = st.names
         /\ tmp_read' = st.tmp
    /\ result' = Report("add_file", "ok", EmptyJson)
    /\ dirty' = TRUE
    /\ UNCHANGED <<disk, saved_timestamp, conn, yielded, lastTs, writeVars>>

add_files(fs) ==
    /\ Len(filenames) + Len(fs) <= MaxFiles
    /\ LET st == AddAll([names |-> filenames, tmp |-> tmp_read], fs) IN
         /\ filenames' = st.names
         /\ tmp_read' = st.tmp
    /\ result' = Report("add_files", "ok", EmptyJson)
    /\ dirty' = TRUE
    /\ UNCHANGED <<disk, saved_timestamp, conn, yielded, lastTs, writeVars>>

clean_files ==
    /\ filenames' = << >>
    /\ tmp_read' = NoTmp
    /\ result' = Report("clean_files", "ok", EmptyJson)
    /\ dirty' = TRUE
    /\ UNCHANGED <<disk, saved_timestamp, conn, yielded, lastTs, writeVars>>

\* connect, first loop: close the files already open.
CloseOpened(tr) ==
    [p \in DOMAIN tr |->
       IF p \in Range(filenames) /\ tr[p].file # "None"
       THEN [tr[p] EXCEPT !.file = "closed"] ELSE tr[p]]

\* OpenError with the except clause left out: FileNotFoundError escapes.
OpenErrorUncaught(f) ==
    IF f.kind = "missing" THEN "FileNotFoundError"
    ELSE IF f.kind = "unreadable" THEN "PermissionError"
    ELSE ""

\* open(path_file) inside connect's try: "" when the file opens, else the
\* exception connect raises.  Only FileNotFoundError is caught and turned
\* into CsvBadFilePathError; any other OSError leaves connect as it is.
OpenError(f) ==
    IF f.kind = "missing" THEN "CsvBadFilePathError"
    ELSE IF f.kind = "unreadable" THEN "PermissionError"
    ELSE ""

\* CommonKeysError looking for the timestamp key only.
CommonKeysErrorTimestampOnly(line) ==
    IF line = None THEN "TypeError"
    ELSE IF "timestamp" \notin DOMAIN line.row THEN "CsvBadCommonKeysError"
    ELSE ""

\* connect's check of the common keys on the first line: "" when every key
\* of KEYS_COMMON is in it.  `key in None` is a TypeError.
CommonKeysError(line) ==
    IF line = None THEN "TypeError"
    ELSE IF \E key \in Range(KEYS_COMMON) : key \notin DOMAIN line.row
    THEN "CsvBadCommonKeysError"
    ELSE ""

\* connect, second loop from file i on: open, read the first line, check the
\* common keys.  out is "ok" or the exception that ended the loop.
RECURSIVE ConnectFiles(_, _)

\* ConnectFiles that leaves alone a file whose lookahead holds a row: the
\* file keeps its reader where it is.
ConnectFilesNoReopen(i, tr) ==
    IF i > Len(filenames) THEN [out |-> "ok", tmp |-> tr]
    ELSE LET p == filenames[i] IN
         IF OpenError(disk[p]) # "" THEN [out |-> OpenError(disk[p]), tmp |-> tr]
         ELSE IF tr[p].next_line \notin {None, Unprimed}
         THEN ConnectFiles(i + 1, [tr EXCEPT ![p].file = "open"])
         ELSE LET n == _next([tr EXCEPT ![p].file = "open", ![p].reader = 0], p)
                  primed == [n.tmp EXCEPT ![p].next_line = n.line]
              IN IF CommonKeysError(n.line) # ""
                 THEN [out |-> CommonKeysError(n.line), tmp |-> primed]
                 ELSE ConnectFiles(i + 1, primed)

ConnectFiles(i, tr) ==
    IF i > Len(filenames) THEN [out |-> "ok", tmp |-> tr]
    ELSE LET p == filenames[i] IN
         IF OpenError(disk[p]) # "" THEN [out |-> OpenError(disk[p]), tmp |-> tr]
         ELSE LET n == _next([tr EXCEPT ![p].file = "open", ![p].reader = 0], p)
                  primed == [n.tmp EXCEPT ![p].next_line = n.line]
              IN IF CommonKeysError(n.line) # ""
                 THEN [out |-> CommonKeysError(n.line), tmp |-> primed]
                 ELSE ConnectFiles(i + 1, primed)

\* FirstTimestamp left out: connect keeps the saved_timestamp it found.
FirstTimestampKept(out, tr) == saved_timestamp

\* connect's last step: the first timestamp of file 0, when there is a file.
FirstTimestamp(out, tr) ==
    IF out = "ok" /\ filenames # << >>
    THEN timestamp_to_datetime(int(tr[filenames[1]].next_line.row.timestamp))
    ELSE saved_timestamp

connect ==
    LET c == ConnectFiles(1, CloseOpened(tmp_read)) IN
    /\ tmp_read' = c.tmp
    /\ saved_timestamp' = FirstTimestamp(c.out, c.tmp)
    /\ result' = Report("connect", c.out, [returned |-> Len(yielded)])
    /\ conn' = c.out
    /\ dirty' = FALSE
    /\ yielded' = << >>
    /\ lastTs' = IF c.out = "ok" THEN -1 ELSE lastTs
    /\ UNCHANGED <<disk, filenames, writeVars>>

\* SaveIfFirst with the test made for the last file, not the first.
SaveIfLast(p, row_timestamp, st) ==
    IF p = filenames[Len(filenames)] THEN [st EXCEPT !.saved = row_timestamp] ELSE st

\* SaveIfFirst without the test for the first file: any file's row sets
\* saved_timestamp.
SaveAlways(p, row_timestamp, st) == [st EXCEPT !.saved = row_timestamp]

\* __next__: a row above current_timestamp ends the file's loop, and the
\* first file's sets saved_timestamp.
SaveIfFirst(p, row_timestamp, st) ==
    IF p = filenames[1] THEN [st EXCEPT !.saved = row_timestamp] ELSE st

\* MergeRow merging also the rows below current_timestamp.
MergeRowBelow(p, T, row, st) ==
    IF ~DtGT(timestamp_to_datetime(int(row.timestamp)), T)
    THEN dict_merge(st.json, from_csvdb(Basename(p), row))
    ELSE st.json

\* __next__: a row at current_timestamp is decoded and merged into json; a
\* row below it is passed over.
MergeRow(p, T, row, st) ==
    IF timestamp_to_datetime(int(row.timestamp)) = T
    THEN dict_merge(st.json, from_csvdb(Basename(p), row))
    ELSE st.json

\* __next__, the while loop over one file.  st = [tmp, saved, json, out]; T is
\* current_timestamp, read once at the start of the call.
RECURSIVE ScanFile(_, _, _)

\* ScanFile with an `if` for the `while`: the call passes one row of the
\* file at most.
ScanFileOnce(p, T, st) ==
    LET row == st.tmp[p].next_line IN
    IF row = None THEN st
    ELSE IF row = Unprimed THEN [st EXCEPT !.out = "TypeError"]
    ELSE IF "timestamp" \notin DOMAIN row.row THEN [st EXCEPT !.out = "KeyError"]
    ELSE LET row_timestamp == timestamp_to_datetime(int(row.row.timestamp)) IN
         IF DtGT(row_timestamp, T)
         THEN SaveIfFirst(p, row_timestamp, st)
         ELSE IF row_timestamp = T /\ ~CodecAccepts(row.row)
         THEN [st EXCEPT !.out = "KeyError"]
         ELSE LET merged == MergeRow(p, T, row.row, st)
                  n == _next(st.tmp, p)
              IN IF n.err # ""
                 THEN [st EXCEPT !.json = merged, !.out = n.err]
                 ELSE [st EXCEPT !.json = merged,
                                 !.tmp = [n.tmp EXCEPT ![p].next_line = n.line]]

ScanFile(p, T, st) ==
    LET row == st.tmp[p].next_line IN
    IF row = None THEN st
    ELSE IF row = Unprimed THEN [st EXCEPT !.out = "TypeError"]
    ELSE IF "timestamp" \notin DOMAIN row.row THEN [st EXCEPT !.out = "KeyError"]
    ELSE LET row_timestamp == timestamp_to_datetime(int(row.row.timestamp)) IN
         IF DtGT(row_timestamp, T)
         THEN SaveIfFirst(p, row_timestamp, st)
         ELSE IF row_timestamp = T /\ ~CodecAccepts(row.row)
         THEN [st EXCEPT !.out = "KeyError"]
         ELSE LET merged == MergeRow(p, T, row.row, st)
                  n == _next(st.tmp, p)
              IN IF n.err # ""
                 THEN [st EXCEPT !.json = merged, !.out = n.err]
                 ELSE ScanFile(p, T, [st EXCEPT !.json = merged,
                                         !.tmp = [n.tmp EXCEPT ![p].next_line = n.line]])

\* __next__, the for loop over the files from file i on.
RECURSIVE ScanFiles(_, _, _)
ScanFiles(i, T, st) ==
    IF i > Len(filenames) \/ st.out # "" THEN st
    ELSE ScanFiles(i + 1, T, ScanFile(filenames[i], T, st))

\* NextOutcome without the test for an empty json: the empty dict is returned.
NextOutcomeNoStop(st) == IF st.out # "" THEN st.out ELSE "record"

\* __next__'s end: an exception raised on the way, StopIteration when
\* nothing was merged, else the record.
NextOutcome(st) ==
    IF st.out # "" THEN st.out
    ELSE IF IsEmptyJson(st.json) THEN "StopIteration" ELSE "record"

__next__ ==
    LET st == ScanFiles(1, saved_timestamp,
                        [tmp |-> tmp_read, saved |-> saved_timestamp,
                         json |-> EmptyJson, out |-> ""])
        out == NextOutcome(st)
    IN /\ tmp_read' = st.tmp
       /\ saved_timestamp' = st.saved
       /\ result' = Report("next", out, IF out = "record" THEN st.json ELSE EmptyJson)
       /\ yielded' = IF out = "record" THEN Append(yielded, st.json) ELSE yielded
       /\ lastTs' = IF out = "record" /\ lastTs # -2 THEN st.json.timestamp ELSE lastTs
       /\ UNCHANGED <<disk, filenames, conn, dirty, writeVars>>

----------------------------------------------------------------------------
(* The pusher actor's handlers *)

\* The messages an actor receives, by class; Timeout carries None.
Messages == {"StartMessage", "PowerReport", "OtherMessage"}

\* How state.database.load() ends: it returns, or raises DBError.
LoadOutcomes == {"ok", "DBError"}

\* The state of the actor when it is created.
InitActor ==
    /\ initialized = FALSE
    /\ alive = TRUE
    /\ control = << >>
    /\ loads = << >>
    /\ pushed = 0
    /\ handled = << >>

\* StartHandle without the test of state.initialized.
StartHandleNoGuard(s, msg, load) ==
    IF msg # "StartMessage" THEN s
    ELSE IF load = "DBError"
    THEN [s EXCEPT !.loads = Append(@, load), !.control = Append(@, "ErrorMessage")]
    ELSE [s EXCEPT !.loads = Append(@, load), !.initialized = TRUE,
                   !.control = Append(@, "OKMessage")]

\* StartHandler.handle(msg, state) on s = [initialized, control, loads],
\* load being how database.load() ends if it is called.
StartHandle(s, msg, load) ==
    IF s.initialized THEN s
    ELSE IF msg # "StartMessage" THEN s
    ELSE IF load = "DBError"
    THEN [s EXCEPT !.loads = Append(@, load), !.control = Append(@, "ErrorMessage")]
    ELSE [s EXCEPT !.loads = Append(@, load), !.initialized = TRUE,
                   !.control = Append(@, "OKMessage")]

StartHandler_handle(msg) ==
    /\ Len(handled) < MaxMsgs
    /\ \E load \in LoadOutcomes :
          LET s == StartHandle([initialized |-> initialized, control |-> control,
                                loads |-> loads], msg, load)
          IN /\ initialized' = s.initialized
             /\ control' = s.control
             /\ loads' = s.loads
    /\ handled' = Append(handled, [handler |-> "StartHandler", msg |-> msg])
    /\ UNCHANGED <<alive, pushed, storeVars>>

\* PowerHandler.handle(msg, state)
PowerHandler_handle(msg) ==
    /\ Len(handled) < MaxMsgs
    /\ pushed' = IF msg = "PowerReport" THEN pushed + 1 ELSE pushed
    /\ handled' = Append(handled, [handler |-> "PowerHandler", msg |-> msg])
    /\ UNCHANGED <<initialized, alive, control, loads, storeVars>>

\* TimeoutHandler.handle(msg, state)
TimeoutHandler_handle ==
    /\ Len(handled) < MaxMsgs
    /\ alive' = FALSE
    /\ handled' = Append(handled, [handler |-> "TimeoutHandler", msg |-> "None"])
    /\ UNCHANGED <<initialized, control, loads, pushed, storeVars>>

----------------------------------------------------------------------------
(* The store reading a disk of input files *)

\* A CsvDB as its constructor leaves it.
InitStore ==
    /\ filenames = << >>
    /\ tmp_read = NoTmp
    /\ saved_timestamp = timestamp_to_datetime(0)
    /\ result = Report("init", "ok", EmptyJson)
    /\ conn = "never"
    /\ dirty = FALSE
    /\ yielded = << >>
    /\ lastTs = -2
    /\ disk0 = disk
    /\ attempts = << >>

Init ==
    /\ disk \in [Paths -> FileStates]
    /\ InitStore
    /\ InitActor

Next ==
    \/ \E f \in FileNameInputs : add_file(f)
    \/ \E f \in FileNameInputs, g \in FileNameInputs : add_files(<<f, g>>)
    \/ clean_files
    \/ connect
    \/ __next__

Spec == Init /\ [][Next]_vars

----------------------------------------------------------------------------
(* The merge: files that are non-empty and sorted ascending by timestamp,  *)
(* registered once, then connect and __next__ in any order.                *)

SortedTsSeqs ==
    {tss \in UNION {[1 .. n -> 0 .. MergeTs] : n \in 1 .. MergeRows} :
        \A i \in 1 .. Len(tss) - 1 : tss[i] <= tss[i + 1]}

MergeFiles == {MkFile(HdrFull, tss) : tss \in SortedTsSeqs}

\* One or two distinct files, in either order.
Registrations ==
    {<<f>> : f \in FileNameInputs} \cup
    {fs \in {<<f, g>> : f \in FileNameInputs, g \in FileNameInputs} :
        Resolve(fs[1]) # Resolve(fs[2])}

Register ==
    /\ filenames = << >>
    /\ \E fs \in Registrations : add_files(fs)

InitMerge ==
    /\ disk \in [Paths -> MergeFiles]
    /\ InitStore
    /\ InitActor

NextMerge ==
    \/ Register
    \/ connect
    \/ __next__

SpecMerge == InitMerge /\ [][NextMerge]_vars

----------------------------------------------------------------------------
(* The scan: files of any content with all the common columns (rows in any *)
(* order, timestamps repeated or not), registered once, one file possibly  *)
(* twice, then connect and __next__ in any order.                          *)

AnyTsSeqs == UNION {[1 .. n -> 0 .. ScanTs] : n \in 1 .. ScanRows}

ScanFilesOnDisk == {MkFile(HdrFull, tss) : tss \in AnyTsSeqs}

\* The first file is a.csv, under either of its names; the disk gives it
\* and b.csv every content, so that nothing is lost by fixing which is first.
RegisterAny ==
    /\ filenames = << >>
    /\ \E f \in {n \in FileNameInputs : Resolve(n) = PathA} :
          \/ add_file(f)
          \/ \E g \in FileNameInputs : add_files(<<f, g>>)

InitScan ==
    /\ disk \in [Paths -> ScanFilesOnDisk]
    /\ InitStore
    /\ InitActor

NextScan ==
    \/ RegisterAny
    \/ connect
    \/ __next__

SpecScan == InitScan /\ [][NextScan]_vars

----------------------------------------------------------------------------
(* The store's write side *)

\* The field names of the reports, in Python's string order.
FieldOrder == <<"freq", "power">>

Rank(name) == CHOOSE i \in 1 .. Len(FieldOrder) : FieldOrder[i] = name

\* sorted(list(S)) for a set of field names.
RECURSIVE sorted(_)
sorted(S) ==
    IF S = {} THEN << >>
    ELSE LET m == CHOOSE x \in S : \A y \in S : Rank(x) <= Rank(y)
         IN <<m>> \o sorted(S \ {m})

\* A dict is the sequence of its <<key, value>> items, in insertion order.
Keys(d) == {d[i][1] : i \in 1 .. Len(d)}

Get(d, k) == d[CHOOSE i \in 1 .. Len(d) : d[i][1] = k][2]

\* ComputedHeader without the sort: the fields in the order of the dict.
ComputedHeaderUnsorted(values) ==
    KEYS_COMMON \o SelectSeq([i \in 1 .. Len(values) |-> values[i][1]],
                             LAMBDA k : k \notin Range(KEYS_COMMON))

\* header = KEYS_COMMON + sorted(list(set(keys of values) - set(KEYS_COMMON)))
ComputedHeader(values) == KEYS_COMMON \o sorted(Keys(values) \ Range(KEYS_COMMON))

\* rep_path and rep_path_with_file
RepPath(sensor, target) == current_path \o <<sensor \o "-" \o target>>

FilePath(sensor, target, group) == RepPath(sensor, target) \o <<group \o ".csv">>

Dir == [kind |-> "dir"]

\* save's look at the file already there: err is the exception raised ("" for
\* none), header_exist whether a header line was found.  A file that is not
\* found is passed over; a file with no content has fieldnames None, which
\* differs from any header.
HeaderCheck(f, header) ==
    IF f.kind = "missing" THEN [err |-> "", header_exist |-> FALSE]
    ELSE IF f.kind # "file" THEN [err |-> "PermissionError", header_exist |-> FALSE]
    ELSE IF f.header = << >> \/ header # f.header
    THEN [err |-> "HeaderAreNotTheSameError", header_exist |-> f.header # << >>]
    ELSE [err |-> "", header_exist |-> TRUE]

\* DictWriter.writerow(values) under header: the text of each value, '' for a
\* column the dict lacks.
RowOf(header, values) ==
    [c \in Range(header) |-> IF c \in Keys(values) THEN Text(Get(values, c)) ELSE Text("")]

\* AppendRow with the file opened for writing, not for append: what the file
\* held is lost.
AppendRowTruncating(f, header, header_exist, values) ==
    [kind |-> "file",
     header |-> IF header_exist THEN f.header ELSE header,
     rows |-> <<RowOf(header, values)>>]

\* save's write: open for append, the header line first unless one exists,
\* then the row.
AppendRow(f, header, header_exist, values) ==
    [kind |-> "file",
     header |-> IF header_exist THEN f.header ELSE header,
     rows |-> Append(IF f.kind = "file" THEN f.rows ELSE << >>, RowOf(header, values))]

\* save's loop over data.items() from item k on.  st = [disk, out, trail]:
\* trail lists, for each file the loop came to, how its turn ended.
RECURSIVE SaveGroups(_, _, _)

\* SaveGroups with the mismatch noted but the loop carried on to the
\* remaining files.
SaveGroupsKeepGoing(k, report, st) ==
    IF k > Len(report.data) THEN st
    ELSE LET path == FilePath(report.sensor, report.target, report.data[k][1])
             values == report.data[k][2]
             header == ComputedHeader(values)
             chk == HeaderCheck(st.disk[path], header)
         IN IF chk.err # ""
            THEN SaveGroups(k + 1, report,
                   [st EXCEPT !.out = chk.err, !.trail = Append(@, chk.err)])
            ELSE SaveGroups(k + 1, report,
                   [st EXCEPT !.disk[path] = AppendRow(@, header, chk.header_exist, values),
                              !.trail = Append(@, "ok")])

SaveGroups(k, report, st) ==
    IF k > Len(report.data) \/ st.out # "ok" THEN st
    ELSE LET path == FilePath(report.sensor, report.target, report.data[k][1])
             values == report.data[k][2]
             header == ComputedHeader(values)
             chk == HeaderCheck(st.disk[path], header)
         IN IF chk.err # ""
            THEN [st EXCEPT !.out = chk.err, !.trail = Append(@, chk.err)]
            ELSE SaveGroups(k + 1, report,
                   [st EXCEPT !.disk[path] = AppendRow(@, header, chk.header_exist, values),
                              !.trail = Append(@, "ok")])

\* os.makedirs(rep_path), FileExistsError passed over.
MakeDirs(d, rep_path) == [d EXCEPT ![rep_path] = Dir]

NumSaves == IF attempts = << >> THEN 0 ELSE attempts[Len(attempts)].call

\* The files the loop came to, with the header computed and the row to append.
Attempted(report, trail) ==
    [k \in 1 .. Len(trail) |->
       [call |-> NumSaves + 1,
        path |-> FilePath(report.sensor, report.target, report.data[k][1]),
        header |-> ComputedHeader(report.data[k][2]),
        row |-> RowOf(ComputedHeader(report.data[k][2]), report.data[k][2])]]

\* save(serialized_report); report.data is report_model.to_csvdb's answer,
\* the dict group -> values.
save(report) ==
    /\ NumSaves < MaxSaves
    /\ LET st == SaveGroups(1, report,
                   [disk |-> MakeDirs(disk, RepPath(report.sensor, report.target)),
                    out |-> "ok", trail |-> << >>])
       IN /\ disk' = st.disk
          /\ result' = Report("save", st.out, [report |-> report, trail |-> st.trail])
          /\ attempts' = attempts \o Attempted(report, st.trail)
    /\ UNCHANGED <<disk0, readVars>>

\* The files save came to for the report of call n.
AttemptedAt(n, report, trail) ==
    [k \in 1 .. Len(trail) |->
       [call |-> n,
        path |-> FilePath(report.sensor, report.target, report.data[k][1]),
        header |-> ComputedHeader(report.data[k][2]),
        row |-> RowOf(ComputedHeader(report.data[k][2]), report.data[k][2])]]

\* ... and for each report of a batch, the first being that of call n.
RECURSIVE AttemptedEach(_, _, _, _)
AttemptedEach(n, reports, trails, j) ==
    IF j > Len(trails) THEN << >>
    ELSE AttemptedAt(n, reports[j], trails[j]) \o AttemptedEach(n + 1, reports, trails, j + 1)

\* save_many's loop from report k on.  st = [disk, out, trails]: trails holds
\* the trail of each save that was called.
RECURSIVE SaveEach(_, _, _)

\* SaveEach with each save's exception caught: the loop goes on to the
\* reports that follow.
SaveEachKeepGoing(k, reports, st) ==
    IF k > Len(reports) THEN st
    ELSE LET r == reports[k]
             g == SaveGroups(1, r, [disk |-> MakeDirs(st.disk, RepPath(r.sensor, r.target)),
                                    out |-> "ok", trail |-> << >>])
         IN SaveEach(k + 1, reports,
                     [disk |-> g.disk,
                      out |-> IF st.out # "ok" THEN st.out ELSE g.out,
                      trails |-> IF st.out # "ok" THEN st.trails ELSE Append(st.trails, g.trail)])

SaveEach(k, reports, st) ==
    IF k > Len(reports) \/ st.out # "ok" THEN st
    ELSE LET r == reports[k]
             g == SaveGroups(1, r, [disk |-> MakeDirs(st.disk, RepPath(r.sensor, r.target)),
                                    out |-> "ok", trail |-> << >>])
         IN SaveEach(k + 1, reports,
                     [disk |-> g.disk, out |-> g.out, trails |-> Append(st.trails, g.trail)])

\* save_many(serialized_reports)
save_many(reports) ==
    /\ NumSaves + Len(reports) <= MaxBatch
    /\ LET st == SaveEach(1, reports, [disk |-> disk, out |-> "ok", trails |-> << >>])
       IN /\ disk' = st.disk
          /\ result' = Report("save_many", st.out, [reports |-> reports, trails |-> st.trails])
          /\ attempts' = attempts \o AttemptedEach(NumSaves + 1, reports, st.trails, 1)
    /\ UNCHANGED <<disk0, readVars>>

----------------------------------------------------------------------------
(* The store writing reports of one entity *)

Groups == {"core", "pkg"}

OutDir == RepPath("s1", "t1")

OutPaths == {FilePath("s1", "t1", g) : g \in Groups}

\* The values of one group of the report of call n: the common fields, then
\* the group's fields in the order the codec produced them.
ValuesOf(n, fields) ==
    <<  <<"timestamp", n>>, <<"sensor", "s1">>, <<"target", "t1">>,
        <<"socket", 0>>, <<"cpu", 0>>  >>
    \o [i \in 1 .. Len(fields) |-> <<fields[i], 10 * n + i>>]

FieldLists == {<<"power">>, <<"power", "freq">>, <<"freq", "power">>}

\* What to_csvdb may answer for the report of call n: one group, or two in
\* either order.
DataInputs(n) ==
    {<< <<g, ValuesOf(n, fl)>> >> : g \in Groups, fl \in FieldLists} \cup
    {<< <<"pkg", ValuesOf(n, fl)>>, <<"core", ValuesOf(n, fm)>> >> :
        fl \in FieldLists, fm \in FieldLists} \cup
    {<< <<"core", ValuesOf(n, fl)>>, <<"pkg", ValuesOf(n, fm)>> >> :
        fl \in FieldLists, fm \in FieldLists}

ReportInputs(n) ==
    {[sensor |-> "s1", target |-> "t1", data |-> d] : d \in DataInputs(n)}

\* The files found at the start: none, one with no content, or one holding a
\* header line (sorted or not) and no row yet.
OutputFiles ==
    {NoFile, EmptyFile} \cup
    {[kind |-> "file", header |-> KEYS_COMMON \o fl, rows |-> << >>] : fl \in FieldLists}

InitSave ==
    /\ disk \in {d \in [OutPaths \cup {OutDir} -> OutputFiles \cup {Dir}] :
                   /\ d[OutDir] \in {NoFile, Dir}
                   /\ \A p \in OutPaths : d[p] # Dir
                   /\ d[OutDir] = NoFile => \A p \in OutPaths : d[p] = NoFile}
    /\ InitStore
    /\ InitActor

NextSave == \E report \in ReportInputs(NumSaves + 1) : save(report)

SpecSave == InitSave /\ [][NextSave]_vars

----------------------------------------------------------------------------
(* The store writing batches of reports of one entity *)

BatchFieldLists == {<<"power">>, <<"power", "freq">>}

\* The reports of a batch: the group pkg, or both groups with the same fields.
BatchReports(n) ==
    {[sensor |-> "s1", target |-> "t1", data |-> << <<"pkg", ValuesOf(n, fl)>> >>] :
        fl \in BatchFieldLists} \cup
    {[sensor |-> "s1", target |-> "t1",
      data |-> << <<"pkg", ValuesOf(n, fl)>>, <<"core", ValuesOf(n, fl)>> >>] :
        fl \in BatchFieldLists}

\* The batches of len reports, the first being the report of call n.
RECURSIVE BatchesOf(_, _)
BatchesOf(n, len) ==
    IF len = 0 THEN {<< >>}
    ELSE {<<r>> \o b : r \in BatchReports(n), b \in BatchesOf(n + 1, len - 1)}

\* At the start the entity has no file, or the file of pkg with a header
\* line and no row.
InitSaveMany ==
    /\ disk \in {d \in [OutPaths \cup {OutDir} -> {NoFile, Dir, MkFile(HdrFull, << >>)}] :
                   /\ d[OutDir] \in {NoFile, Dir}
                   /\ d[FilePath("s1", "t1", "core")] = NoFile
                   /\ d[FilePath("s1", "t1", "pkg")] # Dir
                   /\ d[OutDir] = NoFile => d[FilePath("s1", "t1", "pkg")] = NoFile}
    /\ InitStore
    /\ InitActor

NextSaveMany ==
    \E len \in 1 .. MaxBatch - NumSaves :
        \E reports \in BatchesOf(NumSaves + 1, len) : save_many(reports)

SpecSaveMany == InitSaveMany /\ [][NextSaveMany]_vars

----------------------------------------------------------------------------
(* The round trip: reports of one entity are saved, with ascending         *)
(* timestamps, on a disk where the entity has no file; then the group      *)
(* files are registered and read back with connect and __next__.           *)

\* The reports saved: one group or both, the fields in the same order each
\* time, so that every save finds the header it computes.
RoundReports(n) ==
    {[sensor |-> "s1", target |-> "t1", data |-> d] :
        d \in { << <<"core", ValuesOf(n, <<"power", "freq">>)>> >>,
                << <<"pkg", ValuesOf(n, <<"power", "freq">>)>> >>,
                << <<"pkg", ValuesOf(n, <<"power", "freq">>)>>,
                   <<"core", ValuesOf(n, <<"power", "freq">>)>> >> }}

\* The names of the group files, relative to current_path.
RoundNames == {[abs |-> FALSE, parts |-> <<"s1-t1", g \o ".csv">>] : g \in Groups}

SaveReport ==
    /\ filenames = << >>
    /\ \E report \in RoundReports(NumSaves + 1) : save(report)

RegisterGroupFiles ==
    /\ filenames = << >>
    /\ attempts # << >>
    /\ \/ \E f \in RoundNames : add_file(f)
       \/ \E f \in RoundNames, g \in RoundNames : f # g /\ add_files(<<f, g>>)

InitRound ==
    /\ disk \in {d \in [OutPaths \cup {OutDir} -> {NoFile, Dir}] :
                   \A p \in OutPaths : d[p] = NoFile}
    /\ InitStore
    /\ InitActor

NextRound ==
    \/ SaveReport
    \/ RegisterGroupFiles
    \/ connect
    \/ __next__

SpecRound == InitRound /\ [][NextRound]_vars

----------------------------------------------------------------------------
(* The pusher handling any sequence of messages *)

InitPusher ==
    /\ disk = [p \in Paths |-> NoFile]
    /\ InitStore
    /\ InitActor

NextPusher ==
    \/ \E msg \in Messages : StartHandler_handle(msg)
    \/ \E msg \in Messages : PowerHandler_handle(msg)
    \/ TimeoutHandler_handle

SpecPusher == InitPusher /\ [][NextPusher]_vars

----------------------------------------------------------------------------
(* What the files hold *)

TsOf(row) == int(row.timestamp)

RowsOf(p) == IF IsFile(disk[p]) THEN disk[p].rows ELSE << >>

HasRows(p) == RowsOf(p) # << >>

\* The timestamps of the rows of p (of those that have one).
TimestampsOf(p) ==
    {TsOf(RowsOf(p)[i]) : i \in {j \in 1 .. Len(RowsOf(p)) : "timestamp" \in DOMAIN RowsOf(p)[j]}}

RECURSIVE Ascending(_)
Ascending(S) ==
    IF S = {} THEN << >>
    ELSE LET m == CHOOSE x \in S : \A y \in S : x <= y
         IN <<m>> \o Ascending(S \ {m})

\* The deep union, into json, of the decoded rows of p at timestamp t from row
\* i on, in file order.
RECURSIVE UnionRows(_, _, _, _)
UnionRows(json, p, t, i) ==
    IF i > Len(RowsOf(p)) THEN json
    ELSE UnionRows(IF TsOf(RowsOf(p)[i]) = t
                   THEN dict_merge(json, from_csvdb(Basename(p), RowsOf(p)[i]))
                   ELSE json,
                   p, t, i + 1)

\* ... and of all registered files from file k on, in registration order.
RECURSIVE UnionFiles(_, _, _)
UnionFiles(json, t, k) ==
    IF k > Len(filenames) THEN json
    ELSE UnionFiles(UnionRows(json, filenames[k], t, 1), t, k + 1)

\* One record per distinct timestamp of the first file, ascending, each the
\* deep union of every row at that timestamp.
ExpectedRecords ==
    LET ts == Ascending(TimestampsOf(filenames[1]))
    IN [i \in 1 .. Len(ts) |-> UnionFiles(EmptyJson, ts[i], 1)]

IsPrefix(s, t) == Len(s) <= Len(t) /\ s = SubSeq(t, 1, Len(s))

----------------------------------------------------------------------------
(* Claims *)

\* C1 (merge correctness): with every registered file non-empty and sorted
\* ascending by timestamp, the records __next__ returns after a successful
\* connect are, in order, one per distinct timestamp of the first file, each
\* the deep union of all rows of all files at that timestamp; __next__ raises
\* nothing else, and reports the end only after the last of them.
C1_MergeCorrectness ==
    (conn = "ok" /\ ~dirty /\ filenames # << >>) =>
        /\ result.out \in {"ok", "record", "StopIteration"}
        /\ IsPrefix(yielded, ExpectedRecords)
        /\ result.out = "StopIteration" => yielded = ExpectedRecords

\* Two files merged to the end: two records, one of them built from three
\* rows, and a row of the second file at a timestamp the first file lacks.
C1_Witness ==
    /\ conn = "ok" /\ ~dirty /\ Len(filenames) = 2
    /\ result.out = "StopIteration"
    /\ Len(yielded) = 2
    /\ \E i \in 1 .. 2 : Cardinality(DOMAIN yielded[i].groups) >= 3
    /\ TimestampsOf(filenames[2]) \ TimestampsOf(filenames[1]) # {}

\* C2 (ordering): each record __next__ returns has a timestamp above that of
\* the record returned before it, counting from the last successful connect.
C2_Ordering ==
    [][(result'.op = "next" /\ result'.out = "record" /\ lastTs >= -1)
          => result'.json.timestamp > lastTs]_vars

\* The timestamps of the records returned since the most recent connect,
\* successful or not, ascend strictly.
YieldedAscending ==
    \A i \in 1 .. Len(yielded) - 1 : yielded[i].timestamp < yielded[i + 1].timestamp

\* The files before position k of filenames are all opened, primed and
\* accepted by connect, so that connect comes to file k.
FileFine(p) ==
    IsFile(disk[p]) /\ HasRows(p) /\ Range(KEYS_COMMON) \subseteq Range(disk[p].header)

Reaches(k) == \A j \in 1 .. k - 1 : FileFine(filenames[j])

\* C3 (empty file on connect): a connect that comes to a file with no rows
\* does not fail for it, and leaves its lookahead exhausted.
C3_EmptyFileOnConnect ==
    \A k \in 1 .. Len(filenames) :
        (/\ result.op = "connect"
         /\ Reaches(k)
         /\ IsFile(disk[filenames[k]])
         /\ ~HasRows(filenames[k]))
        => /\ result.out # "TypeError"
           /\ tmp_read[filenames[k]].next_line = None

\* C4 (failed connect blocks reading): while the most recent connect is one
\* that failed with BadFilePath or BadCommonKeys, __next__ returns no record.
C4_FailedConnectBlocks ==
    (conn \in {"CsvBadFilePathError", "CsvBadCommonKeysError"} /\ result.op = "next")
        => result.out # "record"

\* C8 as stated (BadFilePath for unopenable files): a connect that comes to a
\* path that does not exist or cannot be read fails with BadFilePath.
C8_BadFilePathUnopenable ==
    \A k \in 1 .. Len(filenames) :
        (/\ result.op = "connect"
         /\ Reaches(k)
         /\ disk[filenames[k]].kind \in {"missing", "unreadable"})
        => result.out = "CsvBadFilePathError"

\* C8 as amended: a connect that comes to a path that does not exist fails
\* with BadFilePath; one that comes to a file that exists but cannot be read
\* fails with the error open raised, not with BadFilePath.
C8_BadFilePathMissing ==
    \A k \in 1 .. Len(filenames) :
        (result.op = "connect" /\ Reaches(k)) =>
            /\ disk[filenames[k]].kind = "missing" => result.out = "CsvBadFilePathError"
            /\ disk[filenames[k]].kind = "unreadable" => result.out = "PermissionError"

\* connect went past a good first file and failed on a second that is missing.
C8_Witness ==
    /\ result.op = "connect"
    /\ result.out = "CsvBadFilePathError"
    /\ Len(filenames) = 2
    /\ FileFine(filenames[1])
    /\ disk[filenames[2]] = NoFile

LacksCommonKey(p) == ~(Range(KEYS_COMMON) \subseteq Range(disk[p].header))

AllFilesHaveRows ==
    \A k \in 1 .. Len(filenames) : IsFile(disk[filenames[k]]) /\ HasRows(filenames[k])

\* C9 (connect validates the common fields): with every registered file
\* there and non-empty, connect fails with BadCommonKeys iff the header of
\* some file lacks a common field; otherwise it succeeds, and the watermark
\* is the timestamp of the first row of file 0.
C9_CommonKeys ==
    (result.op = "connect" /\ AllFilesHaveRows) =>
        /\ result.out = "CsvBadCommonKeysError"
             <=> \E k \in 1 .. Len(filenames) : LacksCommonKey(filenames[k])
        /\ (\A k \in 1 .. Len(filenames) : ~LacksCommonKey(filenames[k])) =>
             /\ result.out = "ok"
             /\ filenames # << >> =>
                  saved_timestamp = timestamp_to_datetime(TsOf(RowsOf(filenames[1])[1]))

\* connect accepted the first file and failed on the second, whose header
\* lacks a common field.
C9_Witness ==
    /\ result.op = "connect"
    /\ result.out = "CsvBadCommonKeysError"
    /\ AllFilesHaveRows
    /\ Len(filenames) = 2
    /\ ~LacksCommonKey(filenames[1])
    /\ LacksCommonKey(filenames[2])

\* C10 (zero files): on a store with no registered file connect succeeds and
\* __next__ reports the end of the stream.
C10_ZeroFiles ==
    filenames = << >> =>
        /\ result.op = "connect" => result.out = "ok"
        /\ result.op = "next" => result.out = "StopIteration"

\* The end of the stream on a store that was emptied by clean_files after a
\* connect with files had set the watermark, and was connected again.
C10_Witness ==
    /\ filenames = << >>
    /\ conn = "ok" /\ ~dirty
    /\ result.op = "next" /\ result.out = "StopIteration"
    /\ DtMillis(saved_timestamp) > 0

----------------------------------------------------------------------------
(* Claims about save *)

\* The files on a disk, directories aside, are the same on d and e.
SameFiles(d, e) == \A p \in DOMAIN d : e[p] # Dir => e[p] = d[p]

\* The path of the k-th file of the report of the last save.
SavedPath(r, k) == FilePath(r.json.report.sensor, r.json.report.target, r.json.report.data[k][1])

\* C5 as stated (a failed save leaves the disk unchanged): after a save that
\* failed with HeaderMismatch, the file it failed on holding a header line
\* other than the computed one, every file is as it was before the call.
C5_FailedSaveLeavesDisk ==
    [][(/\ result'.op = "save"
        /\ result'.out = "HeaderAreNotTheSameError"
        /\ disk[SavedPath(result', Len(result'.json.trail))].header # << >>)
          => SameFiles(disk, disk')]_vars

SavedPaths(r) == {SavedPath(r, k) : k \in 1 .. Len(r.json.report.data)}

\* C5 as amended: after a save that failed with HeaderMismatch at one of the
\* record's groups, the file of that group, the files of the groups after it
\* and every file the record has no group for are as before the call; the
\* file of each group before it holds exactly one row more.
C5_FailedSaveLeavesRest ==
    [][(result'.op = "save" /\ result'.out = "HeaderAreNotTheSameError") =>
          LET n == Len(result'.json.trail) IN
          /\ \A k \in n .. Len(result'.json.report.data) :
                 disk'[SavedPath(result', k)] = disk[SavedPath(result', k)]
          /\ \A p \in DOMAIN disk \ SavedPaths(result') : disk'[p] # Dir => disk'[p] = disk[p]
          /\ \A k \in 1 .. n - 1 :
                 LET old == disk[SavedPath(result', k)]
                     new == disk'[SavedPath(result', k)]
                 IN Len(new.rows) = (IF IsFile(old) THEN Len(old.rows) ELSE 0) + 1]_vars

\* A save failed on its second group after appending the row of the first.
C5_Witness ==
    /\ result.op = "save"
    /\ result.json.trail = <<"ok", "HeaderAreNotTheSameError">>

AttemptsOn(p) == SelectSeq(attempts, LAMBDA a : a.path = p)

\* C6 (idempotent header write): a file that at first did not exist, or
\* existed with no content, holds after any number of saves with one and the
\* same computed header that header once, then one row per save in call order.
C6_HeaderOnce ==
    \A p \in OutPaths :
        LET as == AttemptsOn(p) IN
        (/\ disk0[p] \in {NoFile, EmptyFile}
         /\ as # << >>
         /\ \A i \in 1 .. Len(as) : as[i].header = as[1].header)
        => disk[p] = [kind |-> "file", header |-> as[1].header,
                      rows |-> [i \in 1 .. Len(as) |-> as[i].row]]

\* The half of C6 for a file that did not exist at first.
SaveToNewFile ==
    \A p \in OutPaths :
        LET as == AttemptsOn(p) IN
        (/\ disk0[p] = NoFile
         /\ as # << >>
         /\ \A i \in 1 .. Len(as) : as[i].header = as[1].header)
        => disk[p] = [kind |-> "file", header |-> as[1].header,
                      rows |-> [i \in 1 .. Len(as) |-> as[i].row]]

\* The field names of a set, ascending.
AscendingNames(S) == SelectSeq(FieldOrder, LAMBDA n : n \in S)

\* C7 (header stability): when the file a save comes to holds a header, the
\* save appends one row to it iff that header is the common columns followed
\* by the ascending non-common field names of the values, whatever their
\* order in the values; otherwise it fails with HeaderMismatch and leaves
\* the file alone.
C7_HeaderStability ==
    [][result'.op = "save" =>
          \A k \in 1 .. Len(result'.json.trail) :
              LET path == SavedPath(result', k)
                  values == result'.json.report.data[k][2]
                  canon == KEYS_COMMON \o AscendingNames(Keys(values) \ Range(KEYS_COMMON))
                  f == disk[path]
              IN (IsFile(f) /\ f.header # << >>) =>
                    IF f.header = canon
                    THEN /\ result'.json.trail[k] = "ok"
                         /\ disk'[path] = [f EXCEPT !.rows = Append(@, RowOf(canon, values))]
                    ELSE /\ result'.json.trail[k] = "HeaderAreNotTheSameError"
                         /\ disk'[path] = f]_vars

\* A save appended a row to a file that held a header before, from values
\* whose fields came in descending order.
C7_Witness ==
    /\ result.op = "save" /\ result.out = "ok"
    /\ \E k \in 1 .. Len(result.json.trail) :
          /\ IsFile(disk0[SavedPath(result, k)])
          /\ disk0[SavedPath(result, k)].header # << >>
          /\ result.json.report.data[k][2][6][1] = "power"
          /\ Len(result.json.report.data[k][2]) = 7

----------------------------------------------------------------------------
(* Claims about the iteration *)

\* The lookahead of p is a row.
IsRow(line) == line # None /\ line # Unprimed

\* The most recent connect succeeded and the registration is as it found it.
Connected == conn = "ok" /\ ~dirty

\* C11 (the end is absorbing): when __next__ has reported the end of the
\* stream after a successful connect, the call of __next__ that follows
\* reports it again; only a connect leaves the exhausted state.
C11_ExhaustedAbsorbing ==
    [][(/\ Connected
        /\ result.op = "next" /\ result.out = "StopIteration"
        /\ result'.op = "next")
          => /\ result'.out = "StopIteration"
             /\ UNCHANGED <<tmp_read, saved_timestamp, yielded>>]_vars

\* The end reported after two records, with a row of the second file still
\* unread above the watermark.
C11_Witness ==
    /\ Connected
    /\ result.op = "next" /\ result.out = "StopIteration"
    /\ Len(filenames) = 2
    /\ Len(yielded) = 2
    /\ IsRow(tmp_read[filenames[2]].next_line)

\* The store right after connect on a store that add_file has just filled
\* with the registered files: the first connect.
FirstConnect ==
    LET c == ConnectFiles(1, [p \in Range(filenames) |-> FreshEntry])
    IN [tmp |-> c.tmp,
        saved |-> IF filenames = << >> THEN timestamp_to_datetime(0)
                  ELSE timestamp_to_datetime(TsOf(RowsOf(filenames[1])[1])),
        yielded |-> << >>]

\* One call of __next__ on s = [tmp, saved, yielded].
AfterNext(s) ==
    LET st == ScanFiles(1, s.saved, [tmp |-> s.tmp, saved |-> s.saved,
                                     json |-> EmptyJson, out |-> ""])
    IN [tmp |-> st.tmp, saved |-> st.saved,
        yielded |-> IF NextOutcome(st) = "record" THEN Append(s.yielded, st.json)
                    ELSE s.yielded]

\* The store is as s is, or as s becomes by further calls of __next__.
RECURSIVE Replayed(_)
Replayed(s) ==
    \/ /\ tmp_read = s.tmp
       /\ saved_timestamp = s.saved
       /\ yielded = s.yielded
    \/ AfterNext(s) # s /\ Replayed(AfterNext(s))

\* C12 (connect is an idempotent point of re-entry): a successful connect,
\* made before, in the middle of or after an iteration, leaves every cursor
\* on the first row of its file, every file open and the watermark on the
\* first timestamp of the first file, as the first connect does; and the
\* records returned after it are those returned after the first connect.
C12_ConnectReentry ==
    Connected =>
        /\ result.op = "connect" =>
              /\ tmp_read = FirstConnect.tmp
              /\ filenames # << >> => saved_timestamp = FirstConnect.saved
        /\ filenames # << >> => Replayed(FirstConnect)

\* A successful connect made in the middle of an iteration over two files:
\* one record had been returned and the first file holds a later timestamp.
C12_Witness ==
    /\ Connected
    /\ result.op = "connect"
    /\ result.json.returned = 1
    /\ Len(filenames) = 2
    /\ Cardinality(TimestampsOf(filenames[1])) = 2

\* The timestamp of a lookahead that is a row.
LineTs(line) == timestamp_to_datetime(TsOf(line.row))

\* C15 (the watermark is driven by the first file only): saved_timestamp
\* changes only in a successful connect and in a call of __next__ that
\* leaves the first file's lookahead on a row above the old watermark, and
\* then to that row's timestamp; after a successful connect it is always
\* the timestamp of some row of the first file.
C15_WatermarkByPrimary ==
    [][/\ saved_timestamp' # saved_timestamp =>
            \/ result'.op = "connect" /\ result'.out = "ok"
            \/ /\ result'.op = "next"
               /\ filenames # << >>
               /\ IsRow(tmp_read'[filenames[1]].next_line)
               /\ saved_timestamp' = LineTs(tmp_read'[filenames[1]].next_line)
               /\ DtGT(saved_timestamp', saved_timestamp)
       /\ (conn' = "ok" /\ ~dirty' /\ filenames' # << >>) =>
            DtMillis(saved_timestamp') \in TimestampsOf(filenames'[1])]_vars

\* __next__ returned a record and moved the watermark up to the first
\* file's next timestamp, the second file's lookahead being on a row of yet
\* another timestamp above the old watermark.
C15_Witness ==
    /\ Connected
    /\ result.op = "next" /\ result.out = "record"
    /\ Len(filenames) = 2 /\ filenames[1] # filenames[2]
    /\ DtMillis(saved_timestamp) > result.json.timestamp
    /\ IsRow(tmp_read[filenames[2]].next_line)
    /\ TsOf(tmp_read[filenames[2]].next_line.row) > result.json.timestamp
    /\ TsOf(tmp_read[filenames[2]].next_line.row) # DtMillis(saved_timestamp)

\* The number of rows of p that __next__ has passed: those before the
\* lookahead, all of them when the lookahead is None.
Consumed(tr, p) ==
    IF tr[p].next_line = None THEN Len(RowsOf(p)) ELSE tr[p].reader - 1

\* Every value of the record comes from a row at the record's timestamp
\* (CellOf gives the value 10 * ts + i to row i, at timestamp ts).
BuiltAtItsTimestamp(json) ==
    \A k \in DOMAIN json.groups : \A c \in DOMAIN json.groups[k] :
        json.groups[k][c] \div 10 = json.timestamp

\* C16 (rows off the first file's timeline are dropped silently): a call of
\* __next__ after a successful connect raises nothing; a lookahead below the
\* watermark is passed by it; the record it returns has the watermark for
\* timestamp, a timestamp of the first file, and is built from rows at that
\* timestamp only, so that a row below the watermark, or a row of another
\* file at a timestamp the first file lacks, is in no record.
C16_OffTimelineDropped ==
    [][(Connected /\ result'.op = "next") =>
          /\ result'.out \in {"record", "StopIteration"}
          /\ \A p \in Range(filenames) :
                 (/\ IsRow(tmp_read[p].next_line)
                  /\ DtGT(saved_timestamp, LineTs(tmp_read[p].next_line)))
                 => Consumed(tmp_read', p) > Consumed(tmp_read, p)
          /\ result'.out = "record" =>
                 /\ timestamp_to_datetime(result'.json.timestamp) = saved_timestamp
                 /\ result'.json.timestamp \in TimestampsOf(filenames[1])
                 /\ BuiltAtItsTimestamp(result'.json)]_vars

\* An iteration at its end: the second file held a row below the first
\* file's first timestamp and a row at a timestamp the first file lacks;
\* the one record returned is that of the first file's timestamp, and the
\* second file's last row is still its lookahead.
C16_Witness ==
    /\ Connected
    /\ result.op = "next" /\ result.out = "StopIteration"
    /\ Len(filenames) = 2 /\ filenames[1] # filenames[2]
    /\ Len(yielded) = 1
    /\ \E t \in TimestampsOf(filenames[2]) : t < yielded[1].timestamp
    /\ \E t \in TimestampsOf(filenames[2]) : t > yielded[1].timestamp
    /\ Consumed(tmp_read, filenames[2]) = 1
    /\ IsRow(tmp_read[filenames[2]].next_line)

\* C17 (the iteration terminates): after a successful connect every call of
\* __next__ returns, with a record or the end of the stream; each file's
\* cursor only moves forward, one row at a time, its lookahead being the row
\* it has come to, so that no row is read twice; a call that returns a
\* record passes at least one row of the first file; and no more records
\* are returned than the first file has rows.
C17_Terminates ==
    [][(Connected /\ result'.op = "next") =>
          /\ result'.out \in {"record", "StopIteration"}
          /\ \A p \in Range(filenames) :
                 /\ Consumed(tmp_read', p) >= Consumed(tmp_read, p)
                 /\ Consumed(tmp_read', p) <= Len(RowsOf(p))
                 /\ IsRow(tmp_read'[p].next_line) =>
                        tmp_read'[p].next_line.row = RowsOf(p)[tmp_read'[p].reader]
          /\ result'.out = "record" =>
                 /\ filenames # << >>
                 /\ Consumed(tmp_read', filenames[1]) > Consumed(tmp_read, filenames[1])
          /\ Len(yielded') <= (IF filenames = << >> THEN 0 ELSE Len(RowsOf(filenames[1])))]_vars

\* The end of the stream after as many records as the first file has rows,
\* every row of both files passed.
C17_Witness ==
    /\ Connected
    /\ result.op = "next" /\ result.out = "StopIteration"
    /\ Len(filenames) = 2 /\ filenames[1] # filenames[2]
    /\ Len(RowsOf(filenames[1])) = 2
    /\ Len(yielded) = 2
    /\ \A p \in Range(filenames) : Consumed(tmp_read, p) = Len(RowsOf(p))

\* C18 (a call drains its timestamp): when a call of __next__ that began
\* with the watermark T returns, a record or the end of the stream, the
\* lookahead of every registered file is None or a row above T, whatever
\* the files hold.
C18_DrainsTimestamp ==
    [][(result'.op = "next" /\ result'.out \in {"record", "StopIteration"}) =>
          \A p \in Range(filenames) :
              \/ tmp_read'[p].next_line = None
              \/ /\ IsRow(tmp_read'[p].next_line)
                 /\ DtGT(LineTs(tmp_read'[p].next_line), saved_timestamp)]_vars

\* One call returned a record built from the two rows one file holds at the
\* watermark, and from a row of a second file; both files are at their end.
C18_Witness ==
    /\ Connected
    /\ result.op = "next" /\ result.out = "record"
    /\ Len(filenames) = 2 /\ filenames[1] # filenames[2]
    /\ Len(yielded) = 1
    /\ Cardinality({k \in DOMAIN result.json.groups : k[1] = Basename(filenames[1])}) = 2
    /\ \E k \in DOMAIN result.json.groups : k[1] = Basename(filenames[2])
    /\ \A p \in Range(filenames) : tmp_read[p].next_line = None

\* C19 (the iteration reads primed entries only): in no call of __next__,
\* whatever calls of add_file, add_files, clean_files, connect and __next__
\* came before, does the loop come to the lookahead of a registered file
\* that is still the [] add_file put there (reading it is a TypeError).
C19_OnlyPrimedRead ==
    [][result'.op = "next" =>
          ~(/\ \E p \in Range(filenames) : tmp_read[p].next_line = Unprimed
            /\ result'.out = "TypeError")]_vars

----------------------------------------------------------------------------
(* Claims about save_many *)

\* The timestamp of a report.
ReportTs(report) == Get(report.data[1][2], "timestamp")

\* The rows of the file at p on disk d.
RowsOn(d, p) == IF IsFile(d[p]) THEN Range(d[p].rows) ELSE {}

\* C13 (save_many has no rollback): when the save of report k of a batch
\* fails, save_many ends with that save's error; the row of every group of
\* the reports before k is on disk; no row of a report after k is.
C13_NoRollback ==
    [][(result'.op = "save_many" /\ result'.out # "ok") =>
          LET reports == result'.json.reports
              trails == result'.json.trails
              k == Len(trails)
          IN /\ k >= 1
             /\ result'.out = trails[k][Len(trails[k])]
             /\ \A j \in 1 .. k - 1 : \A g \in 1 .. Len(reports[j].data) :
                    RowOf(ComputedHeader(reports[j].data[g][2]), reports[j].data[g][2])
                      \in RowsOn(disk', FilePath(reports[j].sensor, reports[j].target,
                                                 reports[j].data[g][1]))
             /\ \A j \in k + 1 .. Len(reports) : \A p \in OutPaths :
                    \A row \in RowsOn(disk', p) : row.timestamp # Text(ReportTs(reports[j]))]_vars

\* A batch of three whose second save failed: the two rows of the first
\* report were written, and the third report, whose header is that of the
\* files, was not.
C13_Witness ==
    /\ result.op = "save_many"
    /\ Len(result.json.reports) = 3
    /\ Len(result.json.trails) = 2
    /\ result.json.trails[2] = <<"HeaderAreNotTheSameError">>
    /\ Len(result.json.reports[1].data) = 2
    /\ ComputedHeader(result.json.reports[3].data[1][2])
         = ComputedHeader(result.json.reports[1].data[1][2])

----------------------------------------------------------------------------
(* Claims about the round trip *)

\* The record rec holds what save wrote in attempt a: the entity, and under
\* the file's name and the row's socket and cpu every field with its value.
Holds(rec, a) ==
    LET key == <<Basename(a.path), int(a.row.socket), int(a.row.cpu)>> IN
    /\ rec.timestamp = int(a.row.timestamp)
    /\ rec.sensor = str(a.row.sensor)
    /\ rec.target = str(a.row.target)
    /\ key \in DOMAIN rec.groups
    /\ \A c \in NonCommon(a.row) :
           c \in DOMAIN rec.groups[key] /\ rec.groups[key][c] = int(a.row[c])

\* Every save succeeded, exactly the files written are registered, each
\* once, and the iteration after a successful connect has come to its end.
ReadBack ==
    /\ Connected
    /\ result.op = "next" /\ result.out = "StopIteration"
    /\ attempts # << >>
    /\ Range(filenames) = {attempts[i].path : i \in 1 .. Len(attempts)}
    /\ Cardinality(Range(filenames)) = Len(filenames)

\* C14 as stated (round trip): reports saved with ascending timestamps and
\* read back from the written group files come back one record per saved
\* timestamp, each holding everything saved at that timestamp.
C14_RoundTrip ==
    ReadBack =>
        \A i \in 1 .. Len(attempts) :
            \E j \in 1 .. Len(yielded) : Holds(yielded[j], attempts[i])

\* Every saved report has a group in the file registered first.
PrimaryInEveryReport ==
    \A i \in 1 .. Len(attempts) :
        \E j \in 1 .. Len(attempts) :
            attempts[j].call = attempts[i].call /\ attempts[j].path = filenames[1]

\* C14 as amended: the same, provided every saved report has a group whose
\* file is the one registered first; a report without one has its timestamp
\* missing from the first file, and no record is returned for it.
C14_RoundTripOnPrimary ==
    (ReadBack /\ PrimaryInEveryReport) =>
        /\ Len(yielded) = NumSaves
        /\ \A i \in 1 .. Len(attempts) :
               \E j \in 1 .. Len(yielded) : Holds(yielded[j], attempts[i])

\* Two reports read back from two files, the second report with a group
\* only in the file registered first.
C14_Witness ==
    /\ ReadBack /\ PrimaryInEveryReport
    /\ Len(filenames) = 2
    /\ NumSaves = 2
    /\ Len(attempts) = 3
    /\ attempts[3].path = filenames[1]

----------------------------------------------------------------------------
(* Claims about the pusher *)

Last(q) == q[Len(q)]

\* C20 (the pusher's start protocol): whatever messages were handled,
\* state.initialized is true only if a load has succeeded; StartHandler
\* handling a StartMessage on a state not initialized calls load once and
\* sends one control message, OKMessage with initialized set when the load
\* succeeded, ErrorMessage with initialized left false when it failed; on
\* an initialized state StartHandler calls no load and sends nothing.
C20_StartProtocol ==
    [][(handled' # handled /\ Last(handled').handler = "StartHandler") =>
          /\ initialized' => "ok" \in Range(loads')
          /\ (~initialized /\ Last(handled').msg = "StartMessage") =>
                /\ Len(loads') = Len(loads) + 1
                /\ SubSeq(loads', 1, Len(loads)) = loads
                /\ Len(control') = Len(control) + 1
                /\ SubSeq(control', 1, Len(control)) = control
                /\ \/ /\ Last(loads') = "ok"
                      /\ Last(control') = "OKMessage"
                      /\ initialized'
                   \/ /\ Last(loads') = "DBError"
                      /\ Last(control') = "ErrorMessage"
                      /\ ~initialized'
          /\ initialized =>
                /\ initialized'
                /\ loads' = loads
                /\ control' = control]_vars

\* A start that failed, a second that succeeded, and a third StartMessage
\* handled on the initialized state.
C20_Witness ==
    /\ initialized
    /\ loads = <<"DBError", "ok">>
    /\ control = <<"ErrorMessage", "OKMessage">>
    /\ Len(handled) = 3
    /\ \A i \in 1 .. 3 : handled[i] = [handler |-> "StartHandler", msg |-> "StartMessage"]

====
